---------------------------- MODULE Spec2Model ----------------------------
(***************************************************************************)
(* Model of the fuel-ledger bot of src/main.py: the State dataclass and    *)
(* one action per command handler.                                         *)
(*                                                                         *)
(* Numbers.  The program computes with Python floats.  The model computes  *)
(* with exact integers on a grid: one unit of liters is 0.5e-9 L, so that  *)
(* the program's tolerance literal 1e-9 is 2 units and quantities smaller  *)
(* than the tolerance exist.  Odometer readings are in units of 0.5e-9 km, *)
(* cash in units of 0.5e-9 rupees; mileage (km/L) and price (rupees/L) are *)
(* plain numbers.  The inputs are drawn so that every quotient the program *)
(* forms is exact on the grid; binary rounding of floats is not modelled.  *)
(*                                                                         *)
(* Text.  A command argument is a token: Num(n) for text float() parses to *)
(* n, Text(s) for other text, s being a sequence of characters, so that    *)
(* str.title() and str.lower() are computed, not assumed.                  *)
(*                                                                         *)
(* Scheduling.  The Application is built without concurrent_updates, so    *)
(* updates are handled one at a time.  In Spec each action is one whole    *)
(* handler, with the reply it sends, taken as delivered.  SpecAudit is     *)
(* Spec with a record of what the handlers did, for the properties that    *)
(* speak of totals and of the past.  SpecRuntime has the handlers at the   *)
(* grain of their awaits, the persistence file and the restart.            *)
(***************************************************************************)
EXTENDS Integers, Sequences, FiniteSets, TLC

VARIABLES
    state,      \* the State object in context.bot_data['state']
    reply,      \* the reply the handler sent for the last update
    audit,      \* history: what the handlers have borrowed, cleared and priced
    disk,       \* the persistence file bot_state.pkl: <<>> or <<a State>>
    inflight    \* the handler suspended in the middle of its writes, if any

vars == <<state, reply, audit, disk, inflight>>

---------------------------------------------------------------------------
(* Bounds of the model *)

MaxOdo == 1         \* odometer readings are k * DEFAULT_MILEAGE, k in 0..MaxOdo
MaxLevel == 2       \* no tank and no debt is driven above it; it also
                    \* bounds the liters of a fill and the liters a payment buys
MaxBorrowed == 2    \* SpecAudit: the liters a bucket borrows between two resets
AuditMaxTank == 1   \* SpecAudit: no tank is filled above it
RuntimeMaxTank == 1 \* SpecRuntime: no tank is filled above it

---------------------------------------------------------------------------
(* Configuration *)

Aditya == <<"A", "d", "i", "t", "y", "a">>
Archit == <<"A", "r", "c", "h", "i", "t">>

ALLOWED_BUCKETS == <<Aditya, Archit>>

DEFAULT_MILEAGE == 40

\* The literal 1e-9 of ride_end's fuel check, in units of 0.5e-9 L.
RideEps == 2

\* The literal 1e-9 of pay's debt check, in units of 0.5e-9 L.
PayEps == 2

Buckets == {ALLOWED_BUCKETS[i] : i \in DOMAIN ALLOWED_BUCKETS}

\* Optional[str]'s None; like the empty string it is falsy.
None == <<>>

---------------------------------------------------------------------------
(* Text *)

LowerChars == <<"a", "c", "d", "f", "h", "i", "l", "r", "t", "u", "y">>
UpperChars == <<"A", "C", "D", "F", "H", "I", "L", "R", "T", "U", "Y">>

IndexIn(seq, c) == CHOOSE i \in DOMAIN seq : seq[i] = c

\* The case mappings of the characters above, as tables.
UpperOf == [c \in {LowerChars[i] : i \in DOMAIN LowerChars} |->
                UpperChars[IndexIn(LowerChars, c)]]
LowerOf == [c \in {UpperChars[i] : i \in DOMAIN UpperChars} |->
                LowerChars[IndexIn(UpperChars, c)]]

IsLowerChar(c) == c \in DOMAIN UpperOf
IsUpperChar(c) == c \in DOMAIN LowerOf
IsCased(c) == IsLowerChar(c) \/ IsUpperChar(c)

ToUpper(c) == IF IsLowerChar(c) THEN UpperOf[c] ELSE c
ToLower(c) == IF IsUpperChar(c) THEN LowerOf[c] ELSE c

\* str.lower()
Lower(s) == [i \in DOMAIN s |-> ToLower(s[i])]

\* The identity on text: what Title would be if register did not normalise.
TitleVerbatim(s) == s

\* str.title(): a cased character is upper-cased when it starts a word (the
\* character before it is not cased) and lower-cased otherwise.
Title(s) ==
    [i \in DOMAIN s |->
        IF i > 1 /\ IsCased(s[i - 1]) THEN ToLower(s[i]) ELSE ToUpper(s[i])]

\* Command arguments as the handler sees them in context.args.
Num(n) == [t |-> "num", v |-> n]
Text(s) == [t |-> "text", v |-> s]

\* float(arg) succeeds (no ValueError).
IsFloat(tok) == tok.t = "num"

---------------------------------------------------------------------------
(* State *)

Uids == {"u1", "u2"}

\* {}: the empty dict
EmptyDict == [x \in {} |-> None]

\* State(): the dataclass defaults.
State ==
    [users |-> EmptyDict,
     tank |-> [b \in Buckets |-> 0],
     debt |-> [b \in Buckets |-> 0],
     ride_start |-> EmptyDict,
     mileage |-> DEFAULT_MILEAGE,
     last_price_per_liter |-> 0]

\* d[k] = v on a dict
Put(d, k, v) == [x \in (DOMAIN d) \cup {k} |-> IF x = k THEN v ELSE d[x]]

\* d.pop(k): the dict without k
Pop(d, k) == [x \in (DOMAIN d) \ {k} |-> d[x]]

user_bucket(uid, s) == IF uid \in DOMAIN s.users THEN s.users[uid] ELSE None

other_bucket(bucket) ==
    IF bucket = ALLOWED_BUCKETS[1] THEN ALLOWED_BUCKETS[2] ELSE ALLOWED_BUCKETS[1]

Min(a, b) == IF a <= b THEN a ELSE b
Max(a, b) == IF a >= b THEN a ELSE b

\* The bound of the model on the ledger: the levels a step may reach.
WithinBounds(s) ==
    \A b \in Buckets : s.tank[b] <= MaxLevel /\ s.debt[b] <= MaxLevel

---------------------------------------------------------------------------
(* Inputs *)

\* The identities that send /register; every identity sends the other commands.
Registrants == {"u1"}

Names ==
    {Aditya,
     <<"a", "r", "c", "h", "i", "t">>,
     <<"A", "R", "C", "H", "I", "T">>,
     <<"A", "d", "i">>}

RegisterArgs == {<<>>} \cup {<<Text(n)>> : n \in Names}

Kmpls == {0, DEFAULT_MILEAGE \div 2, DEFAULT_MILEAGE}

MileageArgs == {<<Num(k)>> : k \in Kmpls}

Odos == {k * DEFAULT_MILEAGE : k \in 0 .. MaxOdo}

StartArgs == {<<Num(k)>> : k \in Odos}

\* A ride may end one step beyond the last start reading.
EndOdos == {k * DEFAULT_MILEAGE : k \in 0 .. MaxOdo + 1}

EndArgs == {<<>>} \cup {<<Num(k)>> : k \in EndOdos}

\* The prices per liter of the fills.
Prices == {1, 2}

\* liters, and a total cost that is a whole price per liter times the liters
FillArgs ==
    {<<Num(0), Num(1)>>, <<Num(1), Num(0)>>}
        \cup {<<Num(l), Num(l * p)>> : l \in 1 .. MaxLevel, p \in Prices}

\* Cash amounts are multiples of PayStep, the least amount every price divides.
PayStep ==
    CHOOSE n \in 1 .. 4 :
        /\ \A p \in Prices : n % p = 0
        /\ \A m \in 1 .. (n - 1) : \E p \in Prices : m % p # 0

PayArgs ==
    {<<Text(<<"f", "u", "l", "l">>)>>, <<Text(<<"F", "u", "l", "l">>)>>}
        \cup {<<Num(k * PayStep)>> : k \in 0 .. MaxLevel}

---------------------------------------------------------------------------
(* Handlers *)

\* A reply that reports a rejection; the handler returns after it.
Rejected(kind) == reply' = [kind |-> kind]

\* Nothing recorded yet: no liters borrowed or cleared, no fill, no ride.
NoAudit ==
    [borrowed |-> [b \in Buckets |-> 0],
     cleared |-> [b \in Buckets |-> 0],
     fill_price |-> <<>>,
     start_bucket |-> EmptyDict]

Init ==
    /\ state = State
    /\ reply = [kind |-> "none"]
    /\ audit = NoAudit
    /\ disk = <<>>
    /\ inflight = <<>>

start(uid) ==
        /\ reply' = [kind |-> "Help"]
        /\ UNCHANGED state

\* register dropping the pending ride of the identity it binds.
registerDroppingRide(uid, args) ==
        /\ IF Len(args) = 0
           THEN Rejected("Usage") /\ UNCHANGED state
           ELSE LET bucket == Title(args[1].v) IN
                IF bucket \notin Buckets
                THEN Rejected("InvalidBucket") /\ UNCHANGED state
                ELSE /\ state' = [state EXCEPT !.users = Put(@, uid, bucket),
                                               !.ride_start = Pop(@, uid)]
                     /\ reply' = [kind |-> "Registered", bucket |-> bucket]

register(uid, args) ==
        /\ IF Len(args) = 0
           THEN Rejected("Usage") /\ UNCHANGED state
           ELSE LET bucket == Title(args[1].v) IN
                IF bucket \notin Buckets
                THEN Rejected("InvalidBucket") /\ UNCHANGED state
                ELSE /\ state' = [state EXCEPT !.users = Put(@, uid, bucket)]
                     /\ reply' = [kind |-> "Registered", bucket |-> bucket]

\* set_mileage storing whatever number it is given.
set_mileageUnchecked(uid, args) ==
        /\ IF user_bucket(uid, state) = None
           THEN Rejected("NotRegistered") /\ UNCHANGED state
           ELSE IF Len(args) = 0 \/ ~IsFloat(args[1])
           THEN Rejected("Usage") /\ UNCHANGED state
           ELSE LET kmpl == args[1].v IN
                /\ state' = [state EXCEPT !.mileage = kmpl]
                /\ reply' = [kind |-> "MileageSet", kmpl |-> kmpl]

set_mileage(uid, args) ==
        /\ IF user_bucket(uid, state) = None
           THEN Rejected("NotRegistered") /\ UNCHANGED state
           ELSE IF Len(args) = 0 \/ ~IsFloat(args[1])
           THEN Rejected("Usage") /\ UNCHANGED state
           ELSE LET kmpl == args[1].v IN
                IF kmpl <= 0
                THEN Rejected("InvalidValue") /\ UNCHANGED state
                ELSE /\ state' = [state EXCEPT !.mileage = kmpl]
                     /\ reply' = [kind |-> "MileageSet", kmpl |-> kmpl]

ride_start(uid, args) ==
        /\ IF user_bucket(uid, state) = None
           THEN Rejected("NotRegistered") /\ UNCHANGED state
           ELSE IF Len(args) = 0 \/ ~IsFloat(args[1])
           THEN Rejected("Usage") /\ UNCHANGED state
           ELSE LET start_km == args[1].v IN
                /\ state' = [state EXCEPT !.ride_start = Put(@, uid, start_km)]
                /\ reply' = [kind |-> "RideStarted", start_km |-> start_km]

\* Deduct charging the rider the whole ride as debt when it borrows.
DeductAllAsDebt(s, me, used_l) ==
    LET other == other_bucket(me) IN
    IF s.tank[me] >= used_l
    THEN [tank |-> [s.tank EXCEPT ![me] = @ - used_l],
          debt |-> s.debt,
          borrowed |-> 0]
    ELSE LET borrowed == used_l - s.tank[me] IN
         [tank |-> [s.tank EXCEPT ![me] = 0, ![other] = @ - borrowed],
          debt |-> [s.debt EXCEPT ![me] = @ + used_l],
          borrowed |-> borrowed]

\* ride_end, lines 190-198: deduct from the rider's bucket first, then
\* borrow from the other; gives the new tank, the new debt and the borrowed.
Deduct(s, me, used_l) ==
    LET other == other_bucket(me) IN
    IF s.tank[me] >= used_l
    THEN [tank |-> [s.tank EXCEPT ![me] = @ - used_l],
          debt |-> s.debt,
          borrowed |-> 0]
    ELSE LET borrowed == used_l - s.tank[me] IN
         [tank |-> [s.tank EXCEPT ![me] = 0, ![other] = @ - borrowed],
          debt |-> [s.debt EXCEPT ![me] = @ + borrowed],
          borrowed |-> borrowed]

\* ride_end, line 182: more fuel is needed than both tanks hold.
NotEnoughFuel(used_l, available_total) == used_l > available_total + RideEps

\* PopStart reading the start without removing it.
PopStartKept(s, uid) == s

\* PopStart popping the registration instead of the ride.
PopStartFromUsers(s, uid) == [s EXCEPT !.users = Pop(@, uid)]

\* ride_end, line 165: state.ride_start.pop(uid)
PopStart(s, uid) == [s EXCEPT !.ride_start = Pop(@, uid)]

\* PutBack forgotten: the popped start reading stays popped.
PutBackForgotten(s, uid, start_km) == s

\* ride_end, lines 170 and 187: put the start reading back.
PutBack(s, uid, start_km) == [s EXCEPT !.ride_start = Put(@, uid, start_km)]

ride_end(uid, args) ==
        LET bucket == user_bucket(uid, state) IN
        /\ IF bucket = None
           THEN Rejected("NotRegistered") /\ UNCHANGED state
           ELSE IF uid \notin DOMAIN state.ride_start
           THEN Rejected("NoRideStarted") /\ UNCHANGED state
           ELSE IF Len(args) = 0 \/ ~IsFloat(args[1])
           THEN Rejected("Usage") /\ UNCHANGED state
           ELSE LET end_km == args[1].v
                    start_km == state.ride_start[uid]
                    popped == PopStart(state, uid)
                    distance == end_km - start_km
                    me == bucket
                    other == other_bucket(bucket)
                    available_total == state.tank[me] + state.tank[other]
                IN  IF distance < 0
                    THEN /\ Rejected("NegativeDistance")
                         /\ state' = PutBack(popped, uid, start_km)
                    ELSE IF state.mileage <= 0
                    THEN /\ Rejected("NoMileage")
                         /\ state' = popped
                    ELSE LET used_l == distance \div state.mileage
                             d == Deduct(state, me, used_l)
                         IN  IF NotEnoughFuel(used_l, available_total)
                             THEN /\ reply' = [kind |-> "InsufficientFuel",
                                               used_l |-> used_l,
                                               available_total |-> available_total]
                                  /\ state' = PutBack(popped, uid, start_km)
                             ELSE /\ state' = [popped EXCEPT
                                        !.tank = d.tank,
                                        !.debt = d.debt]
                                  /\ reply' = [kind |-> "RideEnded",
                                               distance |-> distance,
                                               used_l |-> used_l,
                                               borrowed |-> d.borrowed,
                                               other |-> other]
                                  /\ WithinBounds(state')

\* FillUp without debt clearing: every liter goes to the filler's own tank.
FillUpOwnTankOnly(s, bucket, liters, total_cost) ==
    [state |-> [s EXCEPT
                    !.last_price_per_liter = total_cost \div liters,
                    !.tank[bucket] = @ + liters],
     clear_l |-> 0,
     remaining_liters |-> liters,
     price |-> total_cost \div liters]

\* FillUp writing the filler's whole debt off whatever the liters brought.
FillUpClearingAll(s, bucket, liters, total_cost) ==
    LET other == other_bucket(bucket)
        price == total_cost \div liters
        clear_l == Min(liters, s.debt[bucket])
        remaining_liters == liters - clear_l
        debt1 == IF clear_l > 0
                 THEN [s.debt EXCEPT ![bucket] = 0]
                 ELSE s.debt
        tank1 == IF clear_l > 0
                 THEN [s.tank EXCEPT ![other] = @ + clear_l]
                 ELSE s.tank
    IN  [state |-> [s EXCEPT
                        !.last_price_per_liter = price,
                        !.debt = debt1,
                        !.tank = [tank1 EXCEPT ![bucket] = @ + remaining_liters]],
         clear_l |-> clear_l,
         remaining_liters |-> remaining_liters,
         price |-> price]

\* fill, lines 220-234: the new price, then debt clearing first.
FillUp(s, bucket, liters, total_cost) ==
    LET other == other_bucket(bucket)
        price == total_cost \div liters
        clear_l == Min(liters, s.debt[bucket])
        remaining_liters == liters - clear_l
        debt1 == IF clear_l > 0
                 THEN [s.debt EXCEPT ![bucket] = @ - clear_l]
                 ELSE s.debt
        tank1 == IF clear_l > 0
                 THEN [s.tank EXCEPT ![other] = @ + clear_l]
                 ELSE s.tank
    IN  [state |-> [s EXCEPT
                        !.last_price_per_liter = price,
                        !.debt = debt1,
                        !.tank = [tank1 EXCEPT ![bucket] = @ + remaining_liters]],
         clear_l |-> clear_l,
         remaining_liters |-> remaining_liters,
         price |-> price]

fill(uid, args) ==
        LET bucket == user_bucket(uid, state) IN
        /\ IF bucket = None
           THEN Rejected("NotRegistered") /\ UNCHANGED state
           ELSE IF Len(args) < 2 \/ ~IsFloat(args[1]) \/ ~IsFloat(args[2])
           THEN Rejected("Usage") /\ UNCHANGED state
           ELSE LET liters == args[1].v
                    total_cost == args[2].v
                IN  IF liters <= 0 \/ total_cost <= 0
                    THEN Rejected("InvalidValue") /\ UNCHANGED state
                    ELSE LET f == FillUp(state, bucket, liters, total_cost) IN
                         /\ state' = f.state
                         /\ reply' = [kind |-> "FillRecorded",
                                      clear_l |-> f.clear_l,
                                      remaining_liters |-> f.remaining_liters,
                                      price |-> f.price,
                                      other |-> other_bucket(bucket)]
                         /\ WithinBounds(state')

\* status, lines 252-261: who owes whom, net, in liters and in rupees.
DebtMsg(s, me) ==
    LET other == other_bucket(me) IN
    IF s.debt[me] > s.debt[other]
    THEN [who |-> "you owe",
          net_debt_l |-> s.debt[me] - s.debt[other],
          net_debt_rs |-> (s.debt[me] - s.debt[other]) * s.last_price_per_liter]
    ELSE IF s.debt[other] > s.debt[me]
    THEN [who |-> "owes you",
          net_debt_l |-> s.debt[other] - s.debt[me],
          net_debt_rs |-> (s.debt[other] - s.debt[me]) * s.last_price_per_liter]
    ELSE [who |-> "all square", net_debt_l |-> 0, net_debt_rs |-> 0]

status(uid) ==
        LET bucket == user_bucket(uid, state) IN
        /\ UNCHANGED state
        /\ IF bucket = None
           THEN Rejected("NotRegistered")
           ELSE reply' = [kind |-> "Status",
                          tank |-> state.tank,
                          debt_msg |-> DebtMsg(state, bucket),
                          mileage |-> state.mileage,
                          price |-> state.last_price_per_liter]

\* settle reporting the net debt that status reports.
settleNetDebt(uid) ==
        LET bucket == user_bucket(uid, state)
            price == state.last_price_per_liter
        IN
        /\ UNCHANGED state
        /\ IF bucket = None
           THEN Rejected("NotRegistered")
           ELSE IF price <= 0
           THEN Rejected("NoPriceSet")
           ELSE LET net == state.debt[bucket] - state.debt[other_bucket(bucket)] IN
                reply' = [kind |-> "Settle",
                          liters_owed |-> net,
                          price |-> price,
                          cash_value |-> net * price]

\* settle taking the debt it reports as settled.
settleClearing(uid) ==
        LET bucket == user_bucket(uid, state)
            price == state.last_price_per_liter
        IN
        /\ IF bucket = None
           THEN Rejected("NotRegistered") /\ UNCHANGED state
           ELSE IF price <= 0
           THEN Rejected("NoPriceSet") /\ UNCHANGED state
           ELSE /\ reply' = [kind |-> "Settle",
                             liters_owed |-> state.debt[bucket],
                             price |-> price,
                             cash_value |-> state.debt[bucket] * price]
                /\ state' = [state EXCEPT !.debt[bucket] = 0]

settle(uid) ==
        LET bucket == user_bucket(uid, state)
            price == state.last_price_per_liter
        IN
        /\ UNCHANGED state
        /\ IF bucket = None
           THEN Rejected("NotRegistered")
           ELSE IF price <= 0
           THEN Rejected("NoPriceSet")
           ELSE reply' = [kind |-> "Settle",
                          liters_owed |-> state.debt[bucket],
                          price |-> price,
                          cash_value |-> state.debt[bucket] * price]

\* pay, lines 317-319 and 347-348: the debt goes down by the cleared liters,
\* which are credited to the other bucket's tank.
ClearDebt(s, bucket, cleared_l) ==
    [s EXCEPT !.debt[bucket] = @ - cleared_l,
              !.tank[other_bucket(bucket)] = @ + cleared_l]

\* ActualCleared without the cap at the debt.
ActualClearedUncapped(debt_before, amount, price) == amount \div price

\* pay, lines 338-345: the liters a cash amount clears.
ActualCleared(debt_before, amount, price) ==
    Min(debt_before, amount \div price)

\* pay, line 341: the debt counts as none.
NoDebtToClear(debt_before) == debt_before < PayEps

pay(uid, args) ==
        LET bucket == user_bucket(uid, state)
            price == state.last_price_per_liter
        IN
        /\ IF bucket = None
           THEN Rejected("NotRegistered") /\ UNCHANGED state
           ELSE IF Len(args) = 0
           THEN Rejected("Usage") /\ UNCHANGED state
           ELSE IF ~IsFloat(args[1]) /\ Lower(args[1].v) = <<"f", "u", "l", "l">>
           THEN LET cleared_l == state.debt[bucket] IN
                IF cleared_l <= 0
                THEN Rejected("NoDebt") /\ UNCHANGED state
                ELSE /\ state' = ClearDebt(state, bucket, cleared_l)
                     /\ reply' = [kind |-> "PaidFull", cleared_l |-> cleared_l]
                     /\ WithinBounds(state')
           ELSE IF ~IsFloat(args[1])
           THEN Rejected("Usage") /\ UNCHANGED state
           ELSE LET amount == args[1].v
                    debt_before == state.debt[bucket]
                    actual_cleared_l == ActualCleared(debt_before, amount, price)
                IN  IF amount <= 0
                    THEN Rejected("InvalidValue") /\ UNCHANGED state
                    ELSE IF price <= 0
                    THEN Rejected("NoPriceSet") /\ UNCHANGED state
                    ELSE IF NoDebtToClear(debt_before)
                    THEN Rejected("NoDebt") /\ UNCHANGED state
                    ELSE /\ state' = ClearDebt(state, bucket, actual_cleared_l)
                         /\ reply' = [kind |-> "Paid",
                                      amount |-> amount,
                                      actual_cleared_l |-> actual_cleared_l,
                                      remaining |-> state'.debt[bucket]]
                         /\ WithinBounds(state')

\* NewState keeping the price reference.
NewStateKeepingPrice ==
    [State EXCEPT !.last_price_per_liter = state.last_price_per_liter]

\* NewState keeping the registrations.
NewStateKeepingUsers == [State EXCEPT !.users = state.users]

\* reset, line 357: a new default state.
NewState == State

reset(uid) ==
        /\ state' = NewState
        /\ reply' = [kind |-> "Reset"]

unknown(uid) ==
        /\ reply' = [kind |-> "Unknown"]
        /\ UNCHANGED state

\* Spec keeps no history and has neither file nor suspended handler.
Untracked == UNCHANGED <<audit, disk, inflight>>

Next ==
    \/ \E uid \in Uids : start(uid) /\ Untracked
    \/ \E uid \in Registrants, args \in RegisterArgs : register(uid, args) /\ Untracked
    \/ \E uid \in Uids, args \in MileageArgs : set_mileage(uid, args) /\ Untracked
    \/ \E uid \in Uids, args \in StartArgs : ride_start(uid, args) /\ Untracked
    \/ \E uid \in Uids, args \in EndArgs : ride_end(uid, args) /\ Untracked
    \/ \E uid \in Uids, args \in FillArgs : fill(uid, args) /\ Untracked
    \/ \E uid \in Uids : status(uid) /\ Untracked
    \/ \E uid \in Uids : settle(uid) /\ Untracked
    \/ \E uid \in Uids, args \in PayArgs : pay(uid, args) /\ Untracked
    \/ \E uid \in Uids : reset(uid) /\ Untracked
    \/ \E uid \in Uids : unknown(uid) /\ Untracked

Spec == Init /\ [][Next]_vars

---------------------------------------------------------------------------
(* The handlers with a record of what they did *)

\* The inputs of SpecAudit: one identity, which binds itself to either
\* bucket; the mileage stays at the default and every ride starts at 0, so
\* that the states are few enough for the record to be kept.
AuditUids == Registrants

AuditNames == {Aditya, <<"a", "r", "c", "h", "i", "t">>}

AuditRegisterArgs == {<<Text(n)>> : n \in AuditNames}

AuditMileageArgs == {<<Num(DEFAULT_MILEAGE)>>}

AuditStartArgs == {<<Num(0)>>}

AuditEndArgs == {<<Num(k)>> : k \in EndOdos}

AuditFillArgs == {<<Num(l), Num(l * p)>> : l \in 1 .. MaxLevel, p \in Prices}

AuditPayArgs == {<<Text(<<"f", "u", "l", "l">>)>>, <<Num(PayStep)>>}

\* The bounds of SpecAudit, on the record and on the tanks.
AuditWithinBounds ==
    \A b \in Buckets :
        /\ audit'.borrowed[b] <= MaxBorrowed
        /\ audit'.cleared[b] <= MaxBorrowed
        /\ state'.tank[b] <= AuditMaxTank

\* The handlers that neither borrow nor clear, nor start a ride.
AuditNothing == UNCHANGED audit

\* ride_start, line 143: the bucket the rider is bound to as its latest ride
\* starts.
AuditRideStart(uid) ==
    audit' = IF reply'.kind = "RideStarted"
             THEN [audit EXCEPT !.start_bucket = Put(@, uid, state.users[uid])]
             ELSE audit

\* ride_end, lines 191-198: the local borrowed is what the rider's bucket
\* has borrowed.
AuditRideEnd(uid) ==
    /\ audit' = IF reply'.kind = "RideEnded"
                THEN [audit EXCEPT
                        !.borrowed[state.users[uid]] = @ + reply'.borrowed]
                ELSE audit
    /\ AuditWithinBounds

\* fill, lines 221-230: the price of this fill, and the local clear_l is what
\* the fill has cleared of the filler's debt.
AuditFill(uid, args) ==
    /\ audit' = IF reply'.kind = "FillRecorded"
                THEN [audit EXCEPT
                        !.cleared[state.users[uid]] = @ + reply'.clear_l,
                        !.fill_price = <<args[2].v \div args[1].v>>]
                ELSE audit
    /\ AuditWithinBounds

\* pay, lines 313-319 and 345-348: the local cleared_l, or actual_cleared_l,
\* is what the payment has cleared of the payer's debt.
AuditPay(uid) ==
    /\ audit' = IF reply'.kind = "PaidFull"
                THEN [audit EXCEPT
                        !.cleared[state.users[uid]] = @ + reply'.cleared_l]
                ELSE IF reply'.kind = "Paid"
                THEN [audit EXCEPT
                        !.cleared[state.users[uid]] = @ + reply'.actual_cleared_l]
                ELSE audit
    /\ AuditWithinBounds

\* reset, line 357: the record starts again.
AuditReset == audit' = NoAudit

\* SpecAudit has neither file nor suspended handler.
NoRuntime == UNCHANGED <<disk, inflight>>

NextAudit ==
    \/ \E uid \in AuditUids :
            start(uid) /\ AuditNothing /\ NoRuntime
    \/ \E uid \in AuditUids, args \in AuditRegisterArgs :
            register(uid, args) /\ AuditNothing /\ NoRuntime
    \/ \E uid \in AuditUids, args \in AuditMileageArgs :
            set_mileage(uid, args) /\ AuditNothing /\ NoRuntime
    \/ \E uid \in AuditUids, args \in AuditStartArgs :
            ride_start(uid, args) /\ AuditRideStart(uid) /\ NoRuntime
    \/ \E uid \in AuditUids, args \in AuditEndArgs :
            ride_end(uid, args) /\ AuditRideEnd(uid) /\ NoRuntime
    \/ \E uid \in AuditUids, args \in AuditFillArgs :
            fill(uid, args) /\ AuditFill(uid, args) /\ NoRuntime
    \/ \E uid \in AuditUids :
            status(uid) /\ AuditNothing /\ NoRuntime
    \/ \E uid \in AuditUids :
            settle(uid) /\ AuditNothing /\ NoRuntime
    \/ \E uid \in AuditUids, args \in AuditPayArgs :
            pay(uid, args) /\ AuditPay(uid) /\ NoRuntime
    \/ \E uid \in AuditUids :
            reset(uid) /\ AuditReset /\ NoRuntime
    \/ \E uid \in AuditUids :
            unknown(uid) /\ AuditNothing /\ NoRuntime

SpecAudit == Init /\ [][NextAudit]_vars

---------------------------------------------------------------------------
(* The handlers at the grain of their awaits, the file and the restart *)

\* The inputs of SpecRuntime: each identity has its bucket, rides start at
\* one reading and end at it or before it, fills bring one liter.
RuntimeRegisterArgs(uid) ==
    IF uid \in Registrants THEN {<<Text(Aditya)>>} ELSE {<<Text(Archit)>>}

RuntimeMileageArgs == {<<Num(DEFAULT_MILEAGE)>>}

RuntimeStartArgs == {<<Num(DEFAULT_MILEAGE)>>}

RuntimeEndArgs == {<<Num(0)>>, <<Num(DEFAULT_MILEAGE)>>}

RuntimeFillArgs == {<<Num(1), Num(1)>>}

RuntimePayArgs == {<<Text(<<"f", "u", "l", "l">>)>>}

\* The bound of SpecRuntime on the tanks.
RuntimeWithinBounds == \A b \in Buckets : state'.tank[b] <= RuntimeMaxTank

\* main, lines 392-398: no concurrent_updates, so the next update is handled
\* when the handler of the last one has returned.
Idle == inflight = <<>>

\* The handler has written the state and awaits reply_text as its last
\* statement; reply is the message being sent.
AwaitsReply == inflight' = <<[restore |-> <<>>]>>

\* A handler up to its await of reply_text: all the handlers but ride_end
\* have written what they write when they await.
ToAwait == Idle /\ AwaitsReply /\ RuntimeWithinBounds /\ UNCHANGED <<audit, disk>>

\* ride_end up to its await of reply_text.  On a negative distance (lines
\* 165-168) and on a lack of fuel (lines 165-186) it awaits with the start
\* reading popped, and has yet to put it back (lines 170 and 187).
ride_end_to_await(uid, args) ==
        LET bucket == user_bucket(uid, state) IN
        /\ Idle
        /\ UNCHANGED <<audit, disk>>
        /\ IF bucket = None \/ uid \notin DOMAIN state.ride_start
              \/ Len(args) = 0 \/ ~IsFloat(args[1])
           THEN ride_end(uid, args) /\ AwaitsReply
           ELSE LET end_km == args[1].v
                    start_km == state.ride_start[uid]
                    distance == end_km - start_km
                    available_total == state.tank[bucket]
                                        + state.tank[other_bucket(bucket)]
                IN  IF distance < 0
                    THEN /\ state' = PopStart(state, uid)
                         /\ Rejected("NegativeDistance")
                         /\ inflight' = <<[restore |-> <<uid, start_km>>]>>
                    ELSE IF state.mileage > 0
                            /\ NotEnoughFuel(distance \div state.mileage,
                                             available_total)
                    THEN /\ state' = PopStart(state, uid)
                         /\ reply' = [kind |-> "InsufficientFuel",
                                      used_l |-> distance \div state.mileage,
                                      available_total |-> available_total]
                         /\ inflight' = <<[restore |-> <<uid, start_km>>]>>
                    ELSE ride_end(uid, args) /\ AwaitsReply /\ RuntimeWithinBounds

\* reply_text returns and the handler runs to its end: ride_end puts the
\* start reading back (lines 170 and 187), the others have nothing left.
reply_sent ==
        /\ inflight # <<>>
        /\ inflight' = <<>>
        /\ state' = IF inflight[1].restore = <<>>
                    THEN state
                    ELSE PutBack(state, inflight[1].restore[1],
                                 inflight[1].restore[2])
        /\ UNCHANGED <<reply, audit, disk>>

\* main, lines 390-395: the persistence layer pickles bot_data to STATE_FILE
\* from a task of its own, which runs whenever the handlers are suspended
\* or idle; no handler writes the file or waits for it.
update_persistence ==
        /\ disk' = <<state>>
        /\ UNCHANGED <<state, reply, audit, inflight>>

\* The process stops, at any point, and is started again: post_init, lines
\* 367-384, takes the State of the file, or a new one if there is no file.
restart ==
        /\ state' = IF disk = <<>> THEN State ELSE disk[1]
        /\ reply' = [kind |-> "Restarted"]
        /\ inflight' = <<>>
        /\ UNCHANGED <<audit, disk>>

NextRuntime ==
    \/ \E uid \in Uids : start(uid) /\ ToAwait
    \/ \E uid \in Uids : \E args \in RuntimeRegisterArgs(uid) :
            register(uid, args) /\ ToAwait
    \/ \E uid \in Uids, args \in RuntimeMileageArgs :
            set_mileage(uid, args) /\ ToAwait
    \/ \E uid \in Uids, args \in RuntimeStartArgs :
            ride_start(uid, args) /\ ToAwait
    \/ \E uid \in Uids, args \in RuntimeEndArgs : ride_end_to_await(uid, args)
    \/ \E uid \in Uids, args \in RuntimeFillArgs : fill(uid, args) /\ ToAwait
    \/ \E uid \in Uids : status(uid) /\ ToAwait
    \/ \E uid \in Uids : settle(uid) /\ ToAwait
    \/ \E uid \in Uids, args \in RuntimePayArgs : pay(uid, args) /\ ToAwait
    \/ \E uid \in Uids : reset(uid) /\ ToAwait
    \/ \E uid \in Uids : unknown(uid) /\ ToAwait
    \/ reply_sent
    \/ update_persistence
    \/ restart

SpecRuntime == Init /\ [][NextRuntime]_vars

---------------------------------------------------------------------------
(* Vocabulary of the properties *)

Rejections ==
    {"InvalidBucket", "InvalidValue", "NotRegistered", "NoRideStarted",
     "NegativeDistance", "NoMileage", "InsufficientFuel", "NoPriceSet",
     "NoDebt", "Usage"}

TankTotal(s) == s.tank[Aditya] + s.tank[Archit]

\* /pay's argument reads "full" in any case.
IsFull(args) == ~IsFloat(args[1]) /\ Lower(args[1].v) = <<"f", "u", "l", "l">>

---------------------------------------------------------------------------
(* C1 *)

\* C1: in every reachable state both tanks and both debts are non-negative,
\* the lender's tank after a ride that borrows under the tolerance of the
\* fuel check included.
C1_NonNegative ==
    \A b \in Buckets : state.tank[b] >= 0 /\ state.debt[b] >= 0

---------------------------------------------------------------------------
(* C2 *)

\* C2: between resets, the total of the two tanks goes up only in a
\* successful fill, by exactly its liters, goes down only in a successful
\* ride_end, by exactly the liters used, and is left as it was by every
\* other operation, pay in full mode and in cash mode in particular.
C2_Conservation ==
    [][reply'.kind # "Reset" =>
        /\ reply'.kind = "FillRecorded" =>
              \A uid \in Uids, args \in FillArgs :
                  fill(uid, args) => TankTotal(state') = TankTotal(state) + args[1].v
        /\ reply'.kind = "RideEnded" =>
              \A uid \in Uids, args \in EndArgs :
                  ride_end(uid, args)
                      => TankTotal(state') = TankTotal(state) - reply'.used_l
        /\ reply'.kind \notin {"FillRecorded", "RideEnded"}
              => TankTotal(state') = TankTotal(state)]_vars

---------------------------------------------------------------------------
(* C3 *)

\* C3: a successful ride_end of a caller bound to bucket me, using
\* used = distance / mileage liters, leaves tank[me] at max(0, tank[me] - used),
\* never below 0, raises debt[me] by exactly borrowed = max(0, used - tank[me]),
\* lowers tank[other] by exactly borrowed, leaves debt[other] alone and lowers
\* the total of the tanks by exactly used.
C3_NoOverBorrow ==
    [][reply'.kind = "RideEnded" =>
        \A uid \in Uids, args \in EndArgs :
            ride_end(uid, args) =>
                LET me == state.users[uid]
                    other == IF me = Aditya THEN Archit ELSE Aditya
                    used == (args[1].v - state.ride_start[uid]) \div state.mileage
                    borrowed == Max(0, used - state.tank[me])
                IN  /\ state'.tank[me] = Max(0, state.tank[me] - used)
                    /\ state'.tank[me] >= 0
                    /\ state'.debt[me] = state.debt[me] + borrowed
                    /\ state'.tank[other] = state.tank[other] - borrowed
                    /\ state'.debt[other] = state.debt[other]
                    /\ TankTotal(state') = TankTotal(state) - used
                    /\ reply'.used_l = used
                    /\ reply'.borrowed = borrowed]_vars

\* A ride has ended that borrowed from the other bucket.
C3_Witness == reply.kind = "RideEnded" /\ reply.borrowed > 0 /\ reply.used_l > reply.borrowed

---------------------------------------------------------------------------
(* C4 *)

\* C4: a successful fill of liters by a caller bound to bucket clears
\* clear = min(liters, debt[bucket]) of the debt first: debt[bucket] goes down by
\* clear, tank[other] up by clear, tank[bucket] up by liters - clear,
\* debt[other] stays, the total of the tanks goes up by exactly liters, and the
\* filler's own tank grows only when this fill has cleared the filler's debt
\* to 0.
C4_DebtClearingFirst ==
    [][reply'.kind = "FillRecorded" =>
        \A uid \in Uids, args \in FillArgs :
            fill(uid, args) =>
                LET bucket == state.users[uid]
                    other == IF bucket = Aditya THEN Archit ELSE Aditya
                    liters == args[1].v
                    clear == IF liters <= state.debt[bucket]
                             THEN liters
                             ELSE state.debt[bucket]
                IN  /\ liters > 0 /\ args[2].v > 0
                    /\ state'.debt[bucket] = state.debt[bucket] - clear
                    /\ state'.tank[other] = state.tank[other] + clear
                    /\ state'.tank[bucket] = state.tank[bucket] + liters - clear
                    /\ state'.debt[other] = state.debt[other]
                    /\ TankTotal(state') = TankTotal(state) + liters
                    /\ (state'.tank[bucket] > state.tank[bucket]
                            => state'.debt[bucket] = 0)
                    /\ reply'.clear_l = clear]_vars

\* A fill has cleared the filler's debt and put the rest in the filler's tank.
C4_Witness ==
    reply.kind = "FillRecorded" /\ reply.clear_l > 0 /\ reply.remaining_liters > 0

---------------------------------------------------------------------------
(* C5 *)

\* What pay replies to a registered caller that gives an amount or "full".
PayReplies == {"Paid", "PaidFull", "NoDebt", "NoPriceSet", "InvalidValue"}

\* The frame of a payment of bucket: the payer's tank and the other debt stay.
PayFrame(bucket) ==
    /\ state'.tank[bucket] = state.tank[bucket]
    /\ \A b \in Buckets \ {bucket} : state'.debt[b] = state.debt[b]

\* pay in full mode with positive debt: the debt becomes 0, whatever the price.
PayFullClears(uid, args) ==
    LET bucket == state.users[uid] IN
    IsFull(args) /\ state.debt[bucket] > 0 =>
        /\ reply'.kind = "PaidFull"
        /\ state'.debt[bucket] = 0
        /\ PayFrame(bucket)

\* pay in cash mode: the debt goes down by min(debt, amount / price).
PayCashClears(uid, args) ==
    LET bucket == state.users[uid]
        cleared == IF state.debt[bucket] <= args[1].v \div state.last_price_per_liter
                   THEN state.debt[bucket]
                   ELSE args[1].v \div state.last_price_per_liter
    IN  /\ reply'.kind = "Paid"
        /\ state'.debt[bucket] = state.debt[bucket] - cleared
        /\ state'.debt[bucket] >= 0
        /\ reply'.actual_cleared_l = cleared
        /\ PayFrame(bucket)

\* C5 as claimed: every cash payment with amount > 0, price > 0 and positive
\* debt clears exactly min(debt, amount / price) and leaves the payer's tank
\* and the other debt alone; a full payment with positive debt sets the debt
\* to 0 without needing a price.
C5_PaymentCap_Original ==
    [][reply'.kind \in PayReplies =>
        \A uid \in DOMAIN state.users, args \in PayArgs :
            pay(uid, args) =>
                /\ PayFullClears(uid, args)
                /\ (IsFloat(args[1]) /\ args[1].v > 0
                        /\ state.last_price_per_liter > 0
                        /\ state.debt[state.users[uid]] > 0
                            => PayCashClears(uid, args))]_vars

\* C5 as amended: the same, for a cash payment whose debt is at least the
\* tolerance 1e-9; a cash payment against a positive debt below the tolerance
\* is rejected NoDebt and changes nothing.
C5_PaymentCap ==
    [][reply'.kind \in PayReplies =>
        \A uid \in DOMAIN state.users, args \in PayArgs :
            pay(uid, args) =>
                /\ PayFullClears(uid, args)
                /\ (IsFloat(args[1]) /\ args[1].v > 0
                        /\ state.last_price_per_liter > 0
                        /\ state.debt[state.users[uid]] >= PayEps
                            => PayCashClears(uid, args))
                /\ (IsFloat(args[1]) /\ args[1].v > 0
                        /\ state.last_price_per_liter > 0
                        /\ state.debt[state.users[uid]] > 0
                        /\ state.debt[state.users[uid]] < PayEps
                            => reply'.kind = "NoDebt" /\ state' = state)]_vars

\* A cash payment larger than the debt has been capped at the debt.
C5_Witness ==
    /\ reply.kind = "Paid"
    /\ reply.remaining = 0
    /\ reply.amount \div state.last_price_per_liter > reply.actual_cleared_l

---------------------------------------------------------------------------
(* C6 *)

---------------------------------------------------------------------------
(* C7 *)

\* A registered identity with no pending ride start.
NoneStarted(uid) == uid \in DOMAIN state.users /\ uid \notin DOMAIN state.ride_start

\* The rejections of ride_end that put the start reading back.
Retryable == {"NegativeDistance", "InsufficientFuel"}

---------------------------------------------------------------------------
(* C8 *)

\* C8: reset, sent by any identity, registered or not, yields the fresh
\* state: both tanks and both debts 0, mileage 40, price 0, nobody
\* registered, no ride pending; a reset of that state gives it again.
C8_Reset ==
    [][reply'.kind = "Reset" =>
        \A uid \in Uids :
            reset(uid) =>
                /\ DOMAIN state'.users = {}
                /\ DOMAIN state'.ride_start = {}
                /\ \A b \in {Aditya, Archit} :
                        state'.tank[b] = 0 /\ state'.debt[b] = 0
                /\ state'.mileage = 40
                /\ state'.last_price_per_liter = 0
                /\ (reply.kind = "Reset" => state' = state)]_vars

\* A reset has been handled.
C8_Witness == reply.kind = "Reset" /\ DOMAIN state.users = {}

---------------------------------------------------------------------------
(* C9 *)

\* What register replies when it is given a name.
RegisterReplies == {"Registered", "InvalidBucket"}

\* What register changes when it binds uid to bucket: that binding only.
Binds(uid, bucket) ==
    /\ reply'.kind = "Registered"
    /\ state' = [state EXCEPT !.users = [u \in DOMAIN state.users \cup {uid} |->
                                            IF u = uid THEN bucket ELSE state.users[u]]]

Refuses == reply'.kind = "InvalidBucket" /\ state' = state

\* Every registered identity is bound to one of the two bucket names.
BoundToBuckets(s) == \A u \in DOMAIN s.users : s.users[u] \in {Aditya, Archit}

\* C9 as claimed: register binds the identity iff the name given is one of
\* the two configured bucket names, and otherwise refuses with no change.
C9_Registration_Original ==
    [][reply'.kind \in RegisterReplies =>
        \A uid \in Registrants, args \in RegisterArgs \ {<<>>} :
            register(uid, args) =>
                IF args[1].v \in {Aditya, Archit}
                THEN Binds(uid, args[1].v)
                ELSE Refuses]_vars

\* C9 as amended: register binds the identity iff the name given spells one
\* of the two configured bucket names in any letter case, binds it to that
\* bucket's configured spelling, rebinding without error, changes nothing
\* else, and otherwise refuses with no change; every registered identity is
\* bound to one of the two bucket names.
C9_Registration ==
    [][/\ reply'.kind \in RegisterReplies =>
          \A uid \in Registrants, args \in RegisterArgs \ {<<>>} :
            register(uid, args) =>
                IF \E b \in {Aditya, Archit} : Lower(args[1].v) = Lower(b)
                THEN \E b \in {Aditya, Archit} :
                        Lower(args[1].v) = Lower(b) /\ Binds(uid, b)
                ELSE Refuses
       /\ BoundToBuckets(state')]_vars

\* An identity has been registered to a bucket while the other bucket, which
\* a registered identity rode for, is in debt: a rebinding.
C9_Witness ==
    /\ reply.kind = "Registered"
    /\ \E u \in DOMAIN state.users : state.users[u] = reply.bucket
    /\ \E b \in {Aditya, Archit} \ {reply.bucket} : state.debt[b] > 0

---------------------------------------------------------------------------
(* C10 *)

\* C10 as claimed: an identity once bound is bound in every later state.
C10_NeverShrinks_Original ==
    [][DOMAIN state.users \subseteq DOMAIN state'.users]_vars

\* C10 as amended: the registrations change only in register and in reset;
\* an identity once bound stays bound until the next reset, which unbinds
\* every identity.
C10_NeverShrinks ==
    [][/\ reply'.kind # "Reset" => DOMAIN state.users \subseteq DOMAIN state'.users
       /\ reply'.kind = "Reset" => DOMAIN state'.users = {}
       /\ state'.users # state.users => reply'.kind \in {"Registered", "Reset"}]_vars

\* A ride has ended, and its rider is still registered.
C10_Witness ==
    /\ reply.kind = "RideEnded"
    /\ DOMAIN state.users # {}

---------------------------------------------------------------------------
(* C11 *)

\* What status and settle reply.
ReadReplies == {"Status", "Settle", "NoPriceSet", "NotRegistered"}

\* C11: status and settle, whoever calls them, registered or not, with a
\* price set or not, leave every field of the state as it was: the
\* registrations, both tanks, both debts, the pending ride starts, the
\* mileage and the last price.
C11_ReadOnly ==
    [][reply'.kind \in ReadReplies =>
        \A uid \in Uids :
            (status(uid) \/ settle(uid)) =>
                /\ state'.users = state.users
                /\ state'.tank = state.tank
                /\ state'.debt = state.debt
                /\ state'.ride_start = state.ride_start
                /\ state'.mileage = state.mileage
                /\ state'.last_price_per_liter = state.last_price_per_liter]_vars

\* settle has reported a debt, and the debt is still there.
C11_Witness ==
    /\ reply.kind = "Settle"
    /\ reply.liters_owed > 0
    /\ \E b \in Buckets : state.debt[b] = reply.liters_owed

---------------------------------------------------------------------------
(* C13 *)

---------------------------------------------------------------------------
(* C15 *)

\* A handler is suspended with a write of its own still to come.
MidWrite == \E i \in DOMAIN inflight : inflight[i].restore # <<>>

\* C15: every operation is applied to the state as one step, with no
\* suspension between its reads and its writes: a handler has no write left
\* when it is suspended, so that what it awaits writes nothing on its return
\* and no other task (the persistence task is the one that runs meanwhile)
\* reads the state of a handler in the middle of its writes.
C15_Serialization ==
    [][/\ ~MidWrite'
       /\ reply_sent => state' = state
       /\ update_persistence => ~MidWrite]_vars

---------------------------------------------------------------------------
(* C16 *)

\* The replies that acknowledge a successful mutating command.
Acks ==
    {"Registered", "MileageSet", "RideStarted", "RideEnded", "FillRecorded",
     "Paid", "PaidFull", "Reset"}

\* C16: when the reply that acknowledges a successful mutating command has
\* been sent, the file holds the state with that mutation, so that a restart
\* after an acknowledgement finds the state as the acknowledged commands left
\* it.
C16_Durability ==
    [][/\ (reply_sent /\ reply.kind \in Acks) => disk = <<state>>
       /\ (restart /\ inflight = <<>> /\ reply.kind \in Acks) => state' = state]_vars

---------------------------------------------------------------------------
(* C17 *)

\* C17: in every reachable state at most one of the two debts is positive,
\* and a bucket in debt has an empty tank.
C17_OneSidedDebt ==
    /\ ~(state.debt[Aditya] > 0 /\ state.debt[Archit] > 0)
    /\ \A b \in Buckets : state.debt[b] > 0 => state.tank[b] = 0

---------------------------------------------------------------------------
(* C18 *)

---------------------------------------------------------------------------
(* C19 *)

\* C19: in every reachable state, if a tank or a debt is positive then the
\* last price is positive, so that settle and a cash pay are rejected
\* NoPriceSet only when both tanks and both debts are 0.
C19_PriceBeforeBalance ==
    (\E b \in Buckets : state.tank[b] > 0 \/ state.debt[b] > 0)
        => state.last_price_per_liter > 0

---------------------------------------------------------------------------
(* C12 *)

\* C12: settle of a registered caller is rejected NoPriceSet iff the last
\* price is not positive, and otherwise reports the caller's bucket's debt as
\* the liters owed and that debt times the last price as the cash value, the
\* last price being total_cost / liters of the most recent successful fill.
C12_SettlementValue ==
    [][reply'.kind \in {"Settle", "NoPriceSet"} =>
        \A uid \in DOMAIN state.users :
            settle(uid) =>
                /\ (reply'.kind = "NoPriceSet") <=> (state.last_price_per_liter <= 0)
                /\ reply'.kind = "Settle" =>
                    /\ reply'.liters_owed = state.debt[state.users[uid]]
                    /\ reply'.price = state.last_price_per_liter
                    /\ reply'.cash_value =
                            state.debt[state.users[uid]] * state.last_price_per_liter
                    /\ audit.fill_price = <<state.last_price_per_liter>>]_vars

\* After a ride that borrowed 1 and with 2 as the price of the last fill,
\* settle has reported 1 owed, worth 2.
C12_Witness ==
    /\ reply.kind = "Settle"
    /\ reply.liters_owed = 1
    /\ reply.cash_value = 2
    /\ audit.fill_price = <<2>>
    /\ \E b \in Buckets : audit.borrowed[b] = 1 /\ audit.cleared[b] = 0

---------------------------------------------------------------------------
(* C14 *)

\* C14: in every reachable state the debt of each bucket is what the bucket
\* has borrowed in its rides since the last reset less what fill and pay have
\* cleared of it since, and so is never more than what it has borrowed.
C14_DebtAccounting ==
    \A b \in Buckets :
        /\ state.debt[b] = audit.borrowed[b] - audit.cleared[b]
        /\ audit.cleared[b] >= 0
        /\ state.debt[b] <= audit.borrowed[b]

\* A bucket has borrowed twice and cleared part of it.
C14_Witness ==
    \E b \in Buckets :
        /\ audit.borrowed[b] = 2
        /\ audit.cleared[b] = 1
        /\ state.debt[b] = 1

---------------------------------------------------------------------------
(* C20 *)

\* C20: register leaves the pending ride starts as they are, the caller's
\* included, and a successful ride_end takes the fuel from, and records the
\* borrowed liters as debt of, the bucket the rider is bound to as the ride
\* ends; when that is not the bucket the rider was bound to as the ride
\* started, that bucket is the lender: its debt stays and its tank gives the
\* borrowed liters.
C20_RideFollowsIdentity ==
    [][/\ reply'.kind = "Registered" =>
            \A uid \in AuditUids, args \in AuditRegisterArgs :
                register(uid, args) => state'.ride_start = state.ride_start
       /\ reply'.kind = "RideEnded" =>
            \A uid \in AuditUids, args \in AuditEndArgs :
                ride_end(uid, args) =>
                    LET me == state.users[uid]
                        from == audit.start_bucket[uid]
                        used == (args[1].v - state.ride_start[uid]) \div state.mileage
                        borrowed == Max(0, used - state.tank[me])
                    IN  /\ state'.tank[me] = Max(0, state.tank[me] - used)
                        /\ state'.debt[me] = state.debt[me] + borrowed
                        /\ from # me =>
                            /\ state'.debt[from] = state.debt[from]
                            /\ state'.tank[from] = state.tank[from] - borrowed]_vars

\* A ride has ended for a rider bound to another bucket than when the ride
\* started, and the bucket it is bound to now has the debt of the ride.
C20_Witness ==
    /\ reply.kind = "RideEnded"
    /\ reply.borrowed > 0
    /\ reply.used_l > reply.borrowed
    /\ \E uid \in DOMAIN state.users :
        /\ uid \notin DOMAIN state.ride_start
        /\ audit.start_bucket[uid] # state.users[uid]
        /\ reply.other = audit.start_bucket[uid]
        /\ state.debt[state.users[uid]] = reply.borrowed
        /\ state.debt[audit.start_bucket[uid]] = 0

=============================================================================
